---- MODULE Spec2Model ----
(***************************************************************************)
(* The natural-language car-search parser of the WhatsApp car finder       *)
(* (src/app/utils/query_parser.py) and the message dispatcher              *)
(* (src/app/utils/responses.py), as a state machine.                       *)
(*                                                                         *)
(* A Python string is a sequence of one-character strings; Python's        *)
(* 0-based offsets (position, current_idx) are kept, so the character at   *)
(* offset p of s is s[p + 1].                                              *)
(***************************************************************************)
EXTENDS Integers, Sequences, FiniteSets, TLC

\* The longest input is MaxWords words joined by single spaces.
MaxWords == 4

----------------------------------------------------------------------------
\* Characters: str.lower, str.isspace and the regex classes \w and \d, on ASCII.

UpperCase ==
  <<"A","B","C","D","E","F","G","H","I","J","K","L","M","N","O","P","Q","R","S","T","U","V","W","X","Y","Z">>

LowerCase ==
  <<"a","b","c","d","e","f","g","h","i","j","k","l","m","n","o","p","q","r","s","t","u","v","w","x","y","z">>

DigitChars == <<"0","1","2","3","4","5","6","7","8","9">>

DigitSet == {DigitChars[i] : i \in DOMAIN DigitChars}

UpperSet == {UpperCase[i] : i \in DOMAIN UpperCase}

LowerSet == {LowerCase[i] : i \in DOMAIN LowerCase}

\* \d of the re module
IsDigit(c) == c \in DigitSet

DigitValue(c) == (CHOOSE i \in DOMAIN DigitChars : DigitChars[i] = c) - 1

IsUpper(c) == c \in UpperSet

WordSet == UpperSet \cup LowerSet \cup DigitSet \cup {"_"}

\* \w of the re module: a letter, a digit or the underscore.
IsWord(c) == c \in WordSet

\* str.isspace, which is also what str.strip() removes: the tab, the line
\* feed, the vertical tab, the form feed, the carriage return, the four
\* separators chr(28)..chr(31), the space, and chr(133) and chr(160).  The
\* whitespace from chr(5760) on has no spelling in a string of this module
\* and is outside the alphabet of the texts followed.
SpaceSet ==
  {"\t", "\n", "", "\f", "\r", "", "", "", "", " ",
   "", " "}

IsSpace(c) == c \in SpaceSet

LowerChar(c) ==
  IF IsUpper(c) THEN LowerCase[CHOOSE i \in DOMAIN UpperCase : UpperCase[i] = c] ELSE c

\* str.lower()
Lower(s) == [i \in DOMAIN s |-> LowerChar(s[i])]

RECURSIVE LStrip(_)
LStrip(s) == IF s # <<>> /\ IsSpace(Head(s)) THEN LStrip(Tail(s)) ELSE s

RECURSIVE RStrip(_)
RStrip(s) ==
  IF s # <<>> /\ IsSpace(s[Len(s)]) THEN RStrip(SubSeq(s, 1, Len(s) - 1)) ELSE s

\* str.strip()
Strip(s) == RStrip(LStrip(s))

\* s[from:], from a 0-based offset
SliceFrom(s, from) == SubSeq(s, from + 1, Len(s))

\* str.startswith(prefix)
StartsWith(s, prefix) ==
  /\ Len(prefix) <= Len(s)
  /\ \A i \in DOMAIN prefix : s[i] = prefix[i]

\* The characters of a sequence as one string, for the values the program
\* builds by interpolation.
RECURSIVE Str(_)
Str(s) == IF s = <<>> THEN "" ELSE Head(s) \o Str(Tail(s))

----------------------------------------------------------------------------
\* The token patterns of QueryParser.tokenize, each matched with re.match
\* against the slice query[position:], so that \b and ^ see the slice's start
\* as the start of the string.

\* \b between s[k] and s[k+1]; k = 0 is the start of the slice and k = Len(s)
\* its end.
BoundaryAt(s, k) ==
  (k >= 1 /\ IsWord(s[k])) # (k < Len(s) /\ IsWord(s[k + 1]))

\* Line 57: the alternatives of the CAR pattern in the order written; the pattern
\* repeats the list, and a repeated alternative can never be the first to match.
CarAlternatives ==
  << <<"t","o","y","o","t","a">>,
     <<"h","o","n","d","a">>,
     <<"n","i","s","s","a","n">>,
     <<"m","a","z","d","a">>,
     <<"s","u","z","u","k","i">>,
     <<"m","i","t","s","u","b","i","s","h","i">>,
     <<"l","e","x","u","s">>,
     <<"b","m","w">>,
     <<"m","e","r","c","e","d","e","s">>,
     <<"a","u","d","i">>,
     <<"v","o","l","k","s","w","a","g","e","n">>,
     <<"h","y","u","n","d","a","i">>,
     <<"k","i","a">>,
     <<"f","o","r","d">>,
     <<"c","h","e","v","r","o","l","e","t">>,
     <<"d","o","d","g","e">>,
     <<"j","e","e","p">>,
     <<"c","h","r","y","s","l","e","r">>,
     <<"v","o","l","v","o">>,
     <<"l","a","n","d"," ","r","o","v","e","r">>,
     <<"r","a","n","g","e"," ","r","o","v","e","r">>,
     <<"p","o","r","s","c","h","e">>,
     <<"f","e","r","r","a","r","i">>,
     <<"l","a","m","b","o","r","g","h","i","n","i">>,
     <<"b","e","n","t","l","e","y">>,
     <<"r","o","l","l","s"," ","r","o","y","c","e">>,
     <<"j","a","g","u","a","r">>,
     <<"m","a","s","e","r","a","t","i">>,
     <<"a","s","t","o","n"," ","m","a","r","t","i","n">>,
     <<"m","c","l","a","r","e","n">>,
     <<"b","u","g","a","t","t","i">>,
     <<"p","a","g","a","n","i">>,
     <<"k","o","e","n","i","g","s","e","g","g">>,
     <<"r","i","m","a","c">>,
     <<"l","u","c","i","d">>,
     <<"t","e","s","l","a">>,
     <<"r","i","v","i","a","n">>,
     <<"p","o","l","e","s","t","a","r">>,
     <<"g","e","n","e","s","i","s">>,
     <<"i","n","f","i","n","i","t","i">>,
     <<"a","c","u","r","a">>,
     <<"s","u","b","a","r","u">>,
     <<"m","i","n","i">>,
     <<"f","i","a","t">>,
     <<"a","l","f","a"," ","r","o","m","e","o">>,
     <<"p","e","u","g","e","o","t">>,
     <<"r","e","n","a","u","l","t">>,
     <<"c","i","t","r","o","e","n">>,
     <<"s","k","o","d","a">>,
     <<"s","e","a","t">>,
     <<"o","p","e","l">>,
     <<"v","a","u","x","h","a","l","l">>,
     <<"s","a","a","b">>,
     <<"r","o","v","e","r">>,
     <<"m","g">>,
     <<"t","a","t","a">>,
     <<"m","a","h","i","n","d","r","a">>,
     <<"m","a","r","u","t","i">> >>

\* Line 58: the alternatives of the PRICE pattern.
PriceAlternatives ==
  << <<"p","r","i","c","e">>,
     <<"c","o","s","t">>,
     <<"v","a","l","u","e">>,
     <<"w","o","r","t","h">> >>

\* Line 59: the alternatives of the LOCATION pattern.
LocationAlternatives ==
  << <<"i","n">>,
     <<"a","t">>,
     <<"n","e","a","r">>,
     <<"a","r","o","u","n","d">>,
     <<"c","l","o","s","e"," ","t","o">> >>

\* Line 60: the alternatives of the YEAR pattern.
YearAlternatives ==
  << <<"y","e","a","r">>,
     <<"m","o","d","e","l">>,
     <<"m","a","k","e">> >>

\* Line 61: the alternatives of the CONDITION pattern.
ConditionAlternatives ==
  << <<"n","e","w">>,
     <<"u","s","e","d">>,
     <<"o","l","d">>,
     <<"s","e","c","o","n","d"," ","h","a","n","d">>,
     <<"p","r","e"," ","o","w","n","e","d">>,
     <<"p","r","e","-","o","w","n","e","d">> >>

\* Line 62: the alternatives of the OPERATOR pattern.
OperatorAlternatives ==
  << <<">","=">>,
     <<"<","=">>,
     <<">">>,
     <<"<">>,
     <<"=">>,
     <<"!","=">> >>

\* Line 64: the AND pattern.
AndAlternatives ==
  << <<"a","n","d">> >>

\* Line 65: the OR pattern.
OrAlternatives ==
  << <<"o","r">> >>

\* Line 66: the BETWEEN pattern.
BetweenAlternatives ==
  << <<"b","e","t","w","e","e","n">> >>

\* Line 67: the alternatives of the HIGHER pattern.
HigherAlternatives ==
  << <<"h","i","g","h","e","r">>,
     <<"m","o","r","e"," ","t","h","a","n">>,
     <<"a","b","o","v","e">> >>

\* Line 68: the alternatives of the LOWER pattern.
LowerAlternatives ==
  << <<"l","o","w","e","r">>,
     <<"l","e","s","s"," ","t","h","a","n">>,
     <<"b","e","l","o","w">> >>

\* Line 69: the THAN pattern.
ThanAlternatives ==
  << <<"t","h","a","n">> >>

FindLiteral == <<"f","i","n","d">>

\* Line 56: ^find\b
MatchFind(s) ==
  IF StartsWith(s, FindLiteral) /\ BoundaryAt(s, Len(FindLiteral))
  THEN Len(FindLiteral) ELSE 0

AltMatches(s, alt) ==
  StartsWith(s, alt) /\ BoundaryAt(s, 0) /\ BoundaryAt(s, Len(alt))

\* \b(a1|a2|...)\b at the start of s: the length of the first alternative,
\* in the order written, after which the closing \b holds; 0 for no match.
MatchWordAlt(s, alts) ==
  LET hits == {i \in DOMAIN alts : AltMatches(s, alts[i])}
  IN  IF hits = {} THEN 0
      ELSE Len(alts[CHOOSE i \in hits : \A j \in hits : i <= j])

\* \d+ : the number of leading digits of s
RECURSIVE DigitRun(_)
DigitRun(s) == IF s # <<>> /\ IsDigit(Head(s)) THEN 1 + DigitRun(Tail(s)) ELSE 0

\* (?:,\d+)* : the length of the greedy run of comma groups at the start of s
RECURSIVE CommaGroups(_)
CommaGroups(s) ==
  IF Len(s) >= 2 /\ s[1] = "," /\ IsDigit(s[2])
  THEN LET n == 1 + DigitRun(Tail(s)) IN n + CommaGroups(SliceFrom(s, n))
  ELSE 0

\* (?:\.\d+)? : the length of the optional fraction at the start of s
FractionLen(s) ==
  IF Len(s) >= 2 /\ s[1] = "." /\ IsDigit(s[2]) THEN 1 + DigitRun(Tail(s)) ELSE 0

\* Line 63: \d+(?:,\d+)*(?:\.\d+)?
MatchNumber(s) ==
  LET d == DigitRun(s)
      g == CommaGroups(SliceFrom(s, d))
      f == FractionLen(SliceFrom(s, d + g))
  IN  IF d = 0 THEN 0 ELSE d + g + f

\* Lines 55-70: the token types in the priority order of the pattern list.
PatternOrder ==
  <<"FIND", "CAR", "PRICE", "LOCATION", "YEAR", "CONDITION", "OPERATOR",
    "NUMBER", "AND", "OR", "BETWEEN", "HIGHER", "LOWER", "THAN">>

\* The length re.match(pattern, s) matches for a token type's pattern, 0 for
\* no match (no pattern matches the empty string).
MatchLen(type, s) ==
  CASE type = "FIND"      -> MatchFind(s)
    [] type = "CAR"       -> MatchWordAlt(s, CarAlternatives)
    [] type = "PRICE"     -> MatchWordAlt(s, PriceAlternatives)
    [] type = "LOCATION"  -> MatchWordAlt(s, LocationAlternatives)
    [] type = "YEAR"      -> MatchWordAlt(s, YearAlternatives)
    [] type = "CONDITION" -> MatchWordAlt(s, ConditionAlternatives)
    [] type = "OPERATOR"  -> MatchWordAlt(s, OperatorAlternatives)
    [] type = "NUMBER"    -> MatchNumber(s)
    [] type = "AND"       -> MatchWordAlt(s, AndAlternatives)
    [] type = "OR"        -> MatchWordAlt(s, OrAlternatives)
    [] type = "BETWEEN"   -> MatchWordAlt(s, BetweenAlternatives)
    [] type = "HIGHER"    -> MatchWordAlt(s, HigherAlternatives)
    [] type = "LOWER"     -> MatchWordAlt(s, LowerAlternatives)
    [] type = "THAN"      -> MatchWordAlt(s, ThanAlternatives)

\* Lines 74-81: the patterns are tried in order from the k-th, and the first
\* that matches ends the search; 0 when none matches.
RECURSIVE FirstMatchFrom(_, _)
FirstMatchFrom(k, s) ==
  IF k > Len(PatternOrder) THEN 0
  ELSE IF MatchLen(PatternOrder[k], s) > 0 THEN k
  ELSE FirstMatchFrom(k + 1, s)

FirstMatch(s) == FirstMatchFrom(1, s)

\* Token(type, value, position), lines 28-33
Token(type, value, position) ==
  [type |-> type, value |-> value, position |-> position]

----------------------------------------------------------------------------
\* Values of SearchCondition.value: the text of a title condition, and the
\* float of a pricing condition. A float is written by the digits and the
\* decimal point of its repr, the shortest decimal text that float() reads
\* back as the same double: its value is 0.d1d2...dn * 10^decpt, digits
\* without leading or trailing zeros; 0.0 has no digits; inf is float("inf").

TextValue(chars) == [text |-> chars]

FloatValue(digits, decpt) == [digits |-> digits, decpt |-> decpt, inf |-> FALSE]

FloatZero == FloatValue(<<>>, 0)

FloatInf == [digits |-> <<>>, decpt |-> 0, inf |-> TRUE]

\* str.replace(",", "")
RemoveCommas(v) == SelectSeq(v, LAMBDA c : c # ",")

\* Whether float(v) returns; it raises ValueError for any other text over
\* digits, commas and dots.
IsFloatLiteral(v) ==
  /\ \A i \in DOMAIN v : IsDigit(v[i]) \/ v[i] = "."
  /\ \E i \in DOMAIN v : IsDigit(v[i])
  /\ Cardinality({i \in DOMAIN v : v[i] = "."}) <= 1

\* ds without the zeros at its end
DropTrailingZeros(ds) ==
  LET n     == Len(ds)
      zeros == CHOOSE z \in 0..n :
                 /\ z = n \/ ds[n - z] # "0"
                 /\ \A t \in 0..(z - 1) : ds[n - t] = "0"
  IN  SubSeq(ds, 1, n - zeros)

\* ds without the zeros at its start
DropLeadingZeros(ds) ==
  LET n     == Len(ds)
      zeros == CHOOSE z \in 0..n :
                 /\ z = n \/ ds[z + 1] # "0"
                 /\ \A t \in 1..z : ds[t] = "0"
  IN  SubSeq(ds, zeros + 1, n)

\* Natural numbers of any size, as float() and repr() compute with them: the
\* decimal digits 0..9, the lowest first, without high zeros; zero is <<>>.
BigTrim(a) ==
  LET digits == SubSeq(a, 1, Len(a))
      n      == Len(digits)
      zeros  == CHOOSE z \in 0..n :
                  /\ z = n \/ digits[n - z] # 0
                  /\ \A t \in 0..(z - 1) : digits[n - t] = 0
  IN  SubSeq(digits, 1, n - zeros)

BigDigit(a, i) == IF i <= Len(a) THEN a[i] ELSE 0

BigOfDigits(ds) == BigTrim([i \in 1..Len(ds) |-> DigitValue(ds[Len(ds) + 1 - i])])

\* The digit characters of the digits ds, the highest first as written
DigitText(ds) == [i \in 1..Len(ds) |-> DigitChars[ds[i] + 1]]

\* a * 10^n
BigTimesPowerOfTen(a, n) ==
  IF a = <<>> THEN <<>> ELSE [i \in 1..n |-> 0] \o a

BigLess(a, b) ==
  \/ Len(a) < Len(b)
  \/ /\ Len(a) = Len(b)
     /\ \E d \in 0..(Len(a) - 1) :
          /\ a[Len(a) - d] < b[Len(a) - d]
          /\ \A t \in 0..(d - 1) : a[Len(a) - t] = b[Len(a) - t]

\* The carry into digit i of a + b: the nearest lower digit whose sum is not 9
\* overflows.
BigCarry(a, b, i) ==
  LET d == CHOOSE k \in 1..i :
             /\ k = i \/ BigDigit(a, i - k) + BigDigit(b, i - k) # 9
             /\ \A t \in 1..(k - 1) : BigDigit(a, i - t) + BigDigit(b, i - t) = 9
  IN  IF d < i /\ BigDigit(a, i - d) + BigDigit(b, i - d) >= 10 THEN 1 ELSE 0

BigAdd(a, b) ==
  BigTrim([i \in 1..((IF Len(a) > Len(b) THEN Len(a) ELSE Len(b)) + 1) |->
             (BigDigit(a, i) + BigDigit(b, i) + BigCarry(a, b, i)) % 10])

\* The borrow from digit i of a - b: at the nearest lower digit where the two
\* differ, a has the smaller.
BigBorrow(a, b, i) ==
  LET d == CHOOSE k \in 1..i :
             /\ k = i \/ a[i - k] # BigDigit(b, i - k)
             /\ \A t \in 1..(k - 1) : a[i - t] = BigDigit(b, i - t)
  IN  IF d < i /\ a[i - d] < BigDigit(b, i - d) THEN 1 ELSE 0

\* a - b for a >= b
BigSub(a, b) ==
  BigTrim([i \in 1..Len(a) |->
             (a[i] - BigDigit(b, i) - BigBorrow(a, b, i) + 10) % 10])

\* a * k for a digit k: the low digits of the products, and their high digits
\* one place up
BigTimes(a, k) ==
  BigAdd(BigTrim([i \in 1..Len(a) |-> (a[i] * k) % 10]),
         BigTrim([i \in 1..(Len(a) + 1) |-> IF i = 1 THEN 0 ELSE (a[i - 1] * k) \div 10]))

\* a times the digits lo..hi of b, each in its place
RECURSIVE BigMulFrom(_, _, _, _)
BigMulFrom(a, b, lo, hi) ==
  IF lo = hi THEN BigTimesPowerOfTen(BigTimes(a, b[lo]), lo - 1)
  ELSE LET mid == (lo + hi) \div 2
       IN  BigAdd(BigMulFrom(a, b, lo, mid), BigMulFrom(a, b, mid + 1, hi))

BigMul(a, b) == IF a = <<>> \/ b = <<>> THEN <<>> ELSE BigMulFrom(a, b, 1, Len(b))

BigDouble(a) == BigAdd(a, a)

BigSquare(a) == BigMul(a, a)

RECURSIVE BigPowerOfTwo(_)
BigPowerOfTwo(n) ==
  IF n = 0 THEN <<1>> ELSE BigTimes(BigSquare(BigPowerOfTwo(n \div 2)), 1 + (n % 2))

\* a * 2^n
BigShift(a, n) == IF n = 0 THEN a ELSE BigMul(a, BigPowerOfTwo(n))

BigIsOdd(a) == a # <<>> /\ a[1] % 2 = 1

\* The digit a \div s, for a < 10 * s: the number of multiples of s up to a
BigQuotientDigit(a, s) ==
  Cardinality({d \in 1..9 : ~BigLess(a, BigTimes(s, d))})

\* Long division of a by b, digit by digit from the highest: st.i digits of a
\* are left, st.q is the quotient and st.r the remainder of the digits above;
\* cur is that remainder with the next digit of a under it.
BigDivStep(cur, b, st) ==
  LET d == BigQuotientDigit(cur, b)
  IN  [i |-> st.i - 1, q |-> <<d>> \o st.q, r |-> BigSub(cur, BigTimes(b, d))]

RECURSIVE BigDivFrom(_, _, _)
BigDivFrom(a, b, st) ==
  IF st.i = 0 THEN [q |-> BigTrim(st.q), r |-> st.r]
  ELSE BigDivFrom(a, b, BigDivStep(BigTrim(<<a[st.i]>> \o st.r), b, st))

\* a \div b and a % b for b > 0
BigDivMod(a, b) ==
  LET top == IF Len(a) < Len(b) THEN Len(a) ELSE Len(b) - 1
  IN  BigDivFrom(a, b, [i |-> Len(a) - top, q |-> <<>>,
                        r |-> SubSeq(a, Len(a) - top + 1, Len(a))])

\* The double: 53 bits of mantissa, the lowest exponent of a bit, and the
\* exponent from which a number is inf.
DBL_MANT_DIG == 53

DBL_MIN_EXP == -1074

DBL_MAX_EXP == 1024

\* A text of up to DBL_DIG digits is the repr of the double nearest to it.
DBL_DIG == 15

\* The least mantissa of 53 bits, 2^52 = 4503599627370496, and the first
\* number past them, 2^53 = 9007199254740992
MantissaLow == <<6, 9, 4, 0, 7, 3, 7, 2, 6, 9, 9, 5, 3, 0, 5, 4>>

MantissaTop == <<2, 9, 9, 0, 4, 7, 4, 5, 2, 9, 9, 1, 7, 0, 0, 9>>

\* A power of two not above 10^n: 3.321 < log2(10) < 3.322
BinaryExponentBelow(n) ==
  IF n >= 0 THEN (n * 3321) \div 1000 ELSE -((-n * 3322 + 999) \div 1000)

\* num / den brought into [1, 2) by powers of two: value = num / den * 2^e2.
RECURSIVE BinaryScale(_, _, _)
BinaryScale(num, den, e2) ==
  IF BigLess(num, den) THEN BinaryScale(BigDouble(num), den, e2 - 1)
  ELSE IF ~BigLess(num, BigDouble(den)) THEN BinaryScale(num, BigDouble(den), e2 + 1)
  ELSE [num |-> num, den |-> den, e2 |-> e2]

\* The bits of the mantissa of a double in [2^e2, 2^(e2 + 1)): 53, and fewer
\* below the normal range.
MantissaBits(e2) ==
  IF e2 - (DBL_MANT_DIG - 1) >= DBL_MIN_EXP THEN DBL_MANT_DIG ELSE e2 + 1 - DBL_MIN_EXP

\* The double of the rounded mantissa m: m * 2^e. A mantissa rounded up to
\* 2^53 is 2^52 at the next exponent; inf from 2^1024 on.
RoundedDouble(m, e2, bits) ==
  LET e   == IF bits = DBL_MANT_DIG THEN e2 - (DBL_MANT_DIG - 1) ELSE DBL_MIN_EXP
      top == bits = DBL_MANT_DIG /\ m = MantissaTop
  IN  IF e2 + (IF top THEN 1 ELSE 0) >= DBL_MAX_EXP THEN [m |-> <<>>, e |-> 0, inf |-> TRUE]
      ELSE IF top THEN [m |-> MantissaLow, e |-> e + 1, inf |-> FALSE]
      ELSE [m |-> m, e |-> e, inf |-> FALSE]

\* Round half to even: the quotient cut.q goes up when the remainder cut.r is
\* more than half of den, or half of it and the quotient odd.
RoundHalfEven(cut, den, e2, bits) ==
  LET twice == BigDouble(cut.r)
      up    == BigLess(den, twice) \/ (twice = den /\ BigIsOdd(cut.q))
  IN  RoundedDouble(IF up THEN BigAdd(cut.q, <<1>>) ELSE cut.q, e2, bits)

RoundQuotient(num, den, e2, bits) == RoundHalfEven(BigDivMod(num, den), den, e2, bits)

\* The double nearest to x.num / x.den * 2^x.e2, the fraction in [1, 2): the
\* first bits of it, rounded; 0.0 below half the least double.
RoundScaled(x) ==
  LET bits == MantissaBits(x.e2)
  IN  IF bits < 0 THEN [m |-> <<>>, e |-> DBL_MIN_EXP, inf |-> FALSE]
      ELSE RoundQuotient(BigShift(x.num, IF bits > 1 THEN bits - 1 ELSE 0),
                         BigShift(x.den, IF bits < 1 THEN 1 - bits ELSE 0), x.e2, bits)

\* The double nearest to num / den > 0, ties to the even mantissa: m * 2^e,
\* with fewer bits below the normal range.
NearestDouble(num, den) ==
  LET first == BinaryExponentBelow(Len(num) - Len(den) - 1)
  IN  RoundScaled(BinaryScale(BigShift(num, IF first < 0 THEN -first ELSE 0),
                              BigShift(den, IF first > 0 THEN first ELSE 0), first))

\* Whether 10^k is past the upper end high / s of the interval of a double:
\* at it, when the end itself does not read back as the double.
PastHigh(high, s, even, k) ==
  LET left  == BigTimesPowerOfTen(high, IF k < 0 THEN -k ELSE 0)
      right == BigTimesPowerOfTen(s, IF k > 0 THEN k ELSE 0)
  IN  IF even THEN BigLess(left, right) ELSE ~BigLess(right, left)

\* The decimal point of the shortest text: the least k with 10^k past high / s
DecimalPoint(high, s, even) ==
  LET n == Len(high) - Len(s)
  IN  IF PastHigh(high, s, even, n - 1) THEN n - 1
      ELSE IF PastHigh(high, s, even, n) THEN n
      ELSE n + 1

\* The digits of the shortest text in the interval of st.r / s, from
\* st.mminus / s below it to st.mplus / s above it, the ends included when
\* even, after the digits st.digits; st.done when the last digit is written.
\* The next digit d leaves rest / s: the text ends when that is within the
\* interval of the digits written, with the digit nearest to the double.
ShortestRest(rest, d, up, down, digits, s, even) ==
  LET low   == IF even THEN ~BigLess(down, rest) ELSE BigLess(rest, down)
      sum   == BigAdd(rest, up)
      high  == IF even THEN ~BigLess(sum, s) ELSE BigLess(s, sum)
      twice == BigDouble(rest)
      last  == IF ~high THEN d
               ELSE IF ~low THEN d + 1
               ELSE IF BigLess(twice, s) \/ (twice = s /\ d % 2 = 0) THEN d
               ELSE d + 1
  IN  [r |-> rest, mplus |-> up, mminus |-> down,
       digits |-> Append(digits, last), done |-> low \/ high]

ShortestDigit(r10, up, down, digits, s, even) ==
  LET d == BigQuotientDigit(r10, s)
  IN  ShortestRest(BigSub(r10, BigTimes(s, d)), d, up, down, digits, s, even)

RECURSIVE ShortestDigits(_, _, _)
ShortestDigits(st, s, even) ==
  IF st.done THEN st.digits
  ELSE ShortestDigits(ShortestDigit(BigTimesPowerOfTen(st.r, 1),
                                    BigTimesPowerOfTen(st.mplus, 1),
                                    BigTimesPowerOfTen(st.mminus, 1),
                                    st.digits, s, even), s, even)

\* The shortest text of r / s within mminus / s below and mplus / s above
ShortestBetween(r, s, mplus, mminus, even) ==
  LET k     == DecimalPoint(BigAdd(r, mplus), s, even)
      below == IF k < 0 THEN -k ELSE 0
  IN  FloatValue(DigitText(ShortestDigits([r |-> BigTimesPowerOfTen(r, below),
                                           mplus |-> BigTimesPowerOfTen(mplus, below),
                                           mminus |-> BigTimesPowerOfTen(mminus, below),
                                           digits |-> <<>>, done |-> FALSE],
                                          BigTimesPowerOfTen(s, IF k > 0 THEN k ELSE 0),
                                          even)), k)

\* repr of the double m * 2^e, m > 0: the shortest digits that float() reads
\* back as it, the nearest to it among them. The interval is half the gap to
\* the next double on each side, in units of 1 / 2^shift; the double below a
\* power of two above the lowest exponent is half as far as the one above.
ShortestRepr(m, e) ==
  LET shift == IF m = MantissaLow /\ e > DBL_MIN_EXP THEN 2 ELSE 1
      up    == IF e > 0 THEN e ELSE 0
      down  == IF e < 0 THEN -e ELSE 0
  IN  ShortestBetween(BigShift(m, up + shift), BigPowerOfTwo(down + shift),
                      BigPowerOfTwo(up + shift - 1), BigPowerOfTwo(up), ~BigIsOdd(m))

\* The float of the digits 0.d1d2...dn * 10^decpt, rounded to a double
RoundedFloat(x) ==
  IF x.inf THEN FloatInf
  ELSE IF x.m = <<>> THEN FloatZero
  ELSE ShortestRepr(x.m, x.e)

\* float(v) of a float literal: the double nearest to the decimal number, ties
\* to even. A number of up to 15 digits within the normal range is the repr of
\* its double; a longer one is rounded.
FloatOf(v) ==
  LET dots   == {i \in DOMAIN v : v[i] = "."}
      dot    == IF dots = {} THEN Len(v) + 1 ELSE CHOOSE i \in dots : TRUE
      frac   == SubSeq(v, dot + 1, Len(v))
      all    == DropLeadingZeros(SubSeq(v, 1, dot - 1) \o frac)
      digits == DropTrailingZeros(all)
      decpt  == Len(all) - Len(frac)
      scale  == Len(digits) - decpt
  IN  IF digits = <<>> THEN FloatZero
      ELSE IF Len(digits) <= DBL_DIG /\ decpt \in -306..308
      THEN FloatValue(digits, decpt)
      ELSE IF decpt > 309 THEN FloatInf
      ELSE IF decpt < -323 THEN FloatZero
      ELSE RoundedFloat(NearestDouble(
             BigTimesPowerOfTen(BigOfDigits(digits), IF scale < 0 THEN -scale ELSE 0),
             BigTimesPowerOfTen(<<1>>, IF scale > 0 THEN scale ELSE 0)))

\* n zeros, none for n <= 0
Zeros(n) == [i \in 1..(IF n > 0 THEN n ELSE 0) |-> "0"]

\* x <= y of two floats: by the decimal points, then by the digits, the
\* shorter filled with zeros
FloatLessEq(x, y) ==
  \/ y.inf
  \/ x.digits = <<>> /\ ~x.inf
  \/ /\ ~x.inf /\ y.digits # <<>>
     /\ \/ x.decpt < y.decpt
        \/ /\ x.decpt = y.decpt
           /\ ~BigLess(BigOfDigits(y.digits \o Zeros(Len(x.digits) - Len(y.digits))),
                       BigOfDigits(x.digits \o Zeros(Len(y.digits) - Len(x.digits))))

\* The text handed to float() with its commas left in.
NumberTextWithCommas(v) == v

\* float(token.value.replace(",", "")), lines 107, 119, 120
NumberText(v) == RemoveCommas(v)

\* The exponent of repr: a sign and at least two digits
ExponentStr(n) ==
  (IF n < 0 THEN "-" ELSE "+")
  \o (IF n > -10 /\ n < 10 THEN "0" ELSE "")
  \o ToString(IF n < 0 THEN -n ELSE n)

\* str(x) of a float, which is its repr: the digits with the decimal point in
\* place ("6000000.0", "5.5", "0.0001"), and with an exponent when the point
\* is more than 16 places right of the first digit or more than 3 left of it
\* ("1e+16", "1e-05", "1.5e-07").
FloatStr(x) ==
  LET n == Len(x.digits)
  IN  IF x.inf THEN "inf"
      ELSE IF n = 0 THEN "0.0"
      ELSE IF x.decpt <= -4 \/ x.decpt > 16
      THEN x.digits[1] \o (IF n > 1 THEN "." \o Str(SubSeq(x.digits, 2, n)) ELSE "")
           \o "e" \o ExponentStr(x.decpt - 1)
      ELSE IF x.decpt <= 0
      THEN "0." \o Str(Zeros(-x.decpt)) \o Str(x.digits)
      ELSE IF x.decpt >= n
      THEN Str(x.digits) \o Str(Zeros(x.decpt - n)) \o ".0"
      ELSE Str(SubSeq(x.digits, 1, x.decpt)) \o "." \o Str(SubSeq(x.digits, x.decpt + 1, n))

\* SearchCondition(field, operator, value), lines 35-41
SearchCondition(field, operator, value) ==
  [field |-> field, operator |-> operator, value |-> value,
   logical_operator |-> "&&"]

----------------------------------------------------------------------------
\* The words the texts handed to the program are made of, joined by single
\* spaces. The empty word gives leading, trailing and doubled spaces; "Toyota",
\* "Find" and "Hi" have an upper-case letter; "land" is no brand, "land rover"
\* is one and "landrover" holds one.

Number1 == <<"6",",","0","0","0",",","0","0","0">>

Number2 == <<"9","0","0","0","0","0","0",".","5","0">>

\* Search texts about what to look for.
TermWords ==
  { <<>>,
    <<"f","i","n","d">>,
    <<"T","o","y","o","t","a">>,
    <<"l","a","n","d">>,
    <<"r","o","v","e","r">>,
    <<"l","a","n","d","r","o","v","e","r">>,
    <<"a","q","u","a">> }

\* Search texts about the price.
PriceWords ==
  { <<"T","o","y","o","t","a">>,
    <<"h","i","g","h","e","r">>,
    <<"l","o","w","e","r">>,
    <<"t","h","a","n">>,
    <<"b","e","t","w","e","e","n">>,
    <<"a","n","d">>,
    Number1,
    Number2,
    <<"-">> }

\* Inbound messages.
MessageWords ==
  { <<>>,
    <<"F","i","n","d">>,
    <<"n","e","x","t">>,
    <<"H","i">>,
    <<"s","t","a","r","t">>,
    <<"T","o","y","o","t","a">>,
    <<"a","q","u","a">>,
    <<"l","o","w","e","r">>,
    <<"t","h","a","n">>,
    Number1 }

RECURSIVE JoinWords(_)
JoinWords(ws) ==
  IF ws = <<>> THEN <<>>
  ELSE IF Len(ws) = 1 THEN ws[1]
  ELSE ws[1] \o <<" ">> \o JoinWords(Tail(ws))

Texts(vocabulary) ==
  {JoinWords(ws) : ws \in UNION {[1..n -> vocabulary] : n \in 0..MaxWords}}

\* The texts parse_search_query is called with.
Inputs == Texts(TermWords) \cup Texts(PriceWords)

\* The message bodies get_message_type is called with.
Messages == Texts(MessageWords)

----------------------------------------------------------------------------
VARIABLES
  raw,          \* the text handed to parse_search_query
  pc,           \* where the call is
  query,        \* tokenize: the lower-cased, trimmed text
  position,     \* tokenize: the cursor
  tokens,       \* tokenize: the tokens so far; then self.tokens
  skipped,      \* tokenize: the whitespace characters skipped at line 86
  current_idx,  \* parse: the cursor
  conditions,   \* parse: self.conditions
  dropped,      \* parse: the tokens passed over at line 179
  filter,       \* the filter string returned
  raised,       \* whether an exception left the call
  message_type, \* get_message_type: the type returned
  search_term,  \* get_message_type: the search term returned, <<>> for None
  users,        \* whatsapp_users: the records of the one wa_id, oldest first
  total_pages,  \* vehicle_listings: the pages of listings the store holds
  h,            \* process_whatsapp_message: the state of each running call
  history,      \* what the conversation so far amounts to
  price_result  \* parse_price: <<>> before the call, then <<result>>

vars ==
  <<raw, pc, query, position, tokens, skipped, current_idx, conditions,
    dropped, filter, raised, message_type, search_term, users, total_pages,
    h, history, price_result>>

\* What the parser and the dispatcher on their own leave alone.
service_vars == <<users, total_pages, h, history, price_result>>

\* What a call of process_whatsapp_message leaves alone.
request_vars ==
  <<raw, pc, query, position, tokens, skipped, current_idx, conditions,
    dropped, filter, raised, message_type, search_term, total_pages,
    price_result>>

\* What the dispatcher leaves alone.
parser_vars ==
  <<query, position, tokens, skipped, current_idx, conditions, dropped,
    filter, raised>>

\* What the parser leaves alone.
dispatch_vars == <<message_type, search_term>>

\* The concurrent calls of process_whatsapp_message the model follows.
Handlers == {1, 2}

\* The record get_or_create_user creates, pocketbase.py lines 62-71:
\* last_search_query is absent (<<>>), current_page 1, total_searches 0.
NewUser ==
  [last_search_query |-> <<>>, current_page |-> 1, total_searches |-> 0]

\* update_user_data before lines 116-125 fill it: <<>> and 0 are the
\* absent search_query and current_page.
NoUpdate ==
  [increment_searches |-> FALSE, search_query |-> <<>>, current_page |-> 0]

\* No response yet.
NoResponse == [kind |-> "", page |-> 0]

\* A call that has not begun.  user_id is the place in users of the record
\* get_or_create_user returned, 0 before it has; user_read is the record
\* read at
\* responses.py line 97, page the local current_page of line 102, searches
\* the calls of search_vehicles_by_title made, faults the store and channel
\* operations that failed, outcome how the call ended, before the record
\* as get_or_create_user returned it.
IdleHandler ==
  [pc |-> "idle", message |-> <<>>, user_id |-> 0,
   message_type |-> "", search_term |-> <<>>,
   user_read |-> <<>>, page |-> 0, results |-> <<>>, response |-> NoResponse,
   update |-> NoUpdate, total_searches |-> 0, searches |-> <<>>,
   faults |-> <<>>, outcome |-> "", before |-> NewUser]

\* The conversation before its first message: handled counts the messages
\* received; find is the term of the last search that showed its first
\* page, <<>> when the messages since were not all "next"; nexts counts
\* the "next" messages since that search; shown is the page most recently
\* shown since it.
NoHistory == [handled |-> 0, find |-> <<>>, nexts |-> 0, shown |-> 0]

\* No message has arrived.
NoService ==
  /\ users = <<>>
  /\ total_pages = 0
  /\ h = [p \in Handlers |-> IdleHandler]
  /\ history = NoHistory
  /\ price_result = <<>>

Idle ==
  /\ pc = "start"
  /\ query = <<>>
  /\ position = 0
  /\ tokens = <<>>
  /\ skipped = 0
  /\ current_idx = 0
  /\ conditions = <<>>
  /\ dropped = <<>>
  /\ filter = ""
  /\ raised = FALSE
  /\ message_type = ""
  /\ search_term = <<>>

Init ==
  /\ raw \in Inputs
  /\ Idle
  /\ NoService

----------------------------------------------------------------------------
\* QueryParser.tokenize

\* The text lower-cased but not trimmed.
NormalizeQueryNoStrip(text) == Lower(text)

\* Line 50
NormalizeQuery(text) == Strip(Lower(text))

\* Lines 50-52, entered from parse_search_query (209-210) and parse (153)
TokenizeEntry(text) ==
  /\ query' = NormalizeQuery(text)
  /\ tokens' = <<>>
  /\ position' = 0
  /\ skipped' = 0
  /\ pc' = "tokenize"
  /\ UNCHANGED <<raw, current_idx, conditions, dropped, filter, raised>>

\* parse_search_query(raw), lines 199-210
ParseSearchQuery ==
  /\ pc = "start"
  /\ TokenizeEntry(raw)
  /\ UNCHANGED dispatch_vars
  /\ UNCHANGED service_vars

\* Lines 72-90: one iteration of the scanning loop
TokenizeStep ==
  /\ pc = "tokenize"
  /\ position < Len(query)
  /\ LET s == SliceFrom(query, position)
         k == FirstMatch(s)
     IN  IF k # 0
         THEN LET value == SubSeq(s, 1, MatchLen(PatternOrder[k], s))
              IN  /\ tokens' = Append(tokens, Token(PatternOrder[k], value, position))
                  /\ position' = position + Len(value)
                  /\ skipped' = skipped
         ELSE IF IsSpace(query[position + 1])
         THEN /\ position' = position + 1
              /\ skipped' = skipped + 1
              /\ tokens' = tokens
         ELSE /\ tokens' = Append(tokens, Token("UNKNOWN", <<query[position + 1]>>, position))
              /\ position' = position + 1
              /\ skipped' = skipped
  /\ UNCHANGED <<raw, pc, query, current_idx, conditions, dropped, filter, raised>>
  /\ UNCHANGED dispatch_vars
  /\ UNCHANGED service_vars

\* Lines 72, 92 and 153-155: the loop ends, parse keeps the tokens
TokenizeReturn ==
  /\ pc = "tokenize"
  /\ ~(position < Len(query))
  /\ conditions' = <<>>
  /\ current_idx' = 0
  /\ pc' = "parse"
  /\ UNCHANGED <<raw, query, position, tokens, skipped, dropped, filter, raised>>
  /\ UNCHANGED dispatch_vars
  /\ UNCHANGED service_vars

----------------------------------------------------------------------------
\* QueryParser.parse and its two rules

TypeAt(toks, idx) == toks[idx + 1].type

\* Line 108: the operator of a comparison phrase
ComparisonOperator(type) == IF type = "HIGHER" THEN ">=" ELSE "<="

\* The comparison lookahead asking for one token more than the phrase has.
ComparisonAtOffByOne(toks, idx) ==
  /\ idx + 3 < Len(toks)
  /\ TypeAt(toks, idx) \in {"HIGHER", "LOWER"}
  /\ TypeAt(toks, idx + 1) = "THAN"
  /\ TypeAt(toks, idx + 2) = "NUMBER"

\* Lines 103-106: the lookahead of the comparison rule
ComparisonAt(toks, idx) ==
  /\ idx + 2 < Len(toks)
  /\ TypeAt(toks, idx) \in {"HIGHER", "LOWER"}
  /\ TypeAt(toks, idx + 1) = "THAN"
  /\ TypeAt(toks, idx + 2) = "NUMBER"

\* Lines 114-118: the lookahead of the range rule
RangeAt(toks, idx) ==
  /\ idx + 3 < Len(toks)
  /\ TypeAt(toks, idx) = "BETWEEN"
  /\ TypeAt(toks, idx + 1) = "NUMBER"
  /\ TypeAt(toks, idx + 2) = "AND"
  /\ TypeAt(toks, idx + 3) = "NUMBER"

\* The range conditions with the smaller number made the lower bound.
RangeConditionsOrdered(min_price, max_price) ==
  IF FloatLessEq(min_price, max_price)
  THEN << SearchCondition("pricing", ">=", min_price),
          SearchCondition("pricing", "<=", max_price) >>
  ELSE << SearchCondition("pricing", ">=", max_price),
          SearchCondition("pricing", "<=", min_price) >>

\* Lines 121-123: the two conditions of a range, the first appended to
\* self.conditions by the rule and the second returned
RangeConditions(min_price, max_price) ==
  << SearchCondition("pricing", ">=", min_price),
     SearchCondition("pricing", "<=", max_price) >>

\* Lines 94-127: parse_price_condition(tokens, start_idx) with self.conditions
\* = conds. found: a condition is returned; condition, idx: the pair returned;
\* conditions: self.conditions afterwards; raised: float() raised ValueError.
ParsePriceCondition(toks, start_idx, conds) ==
  LET none == [found |-> FALSE, raised |-> FALSE, idx |-> start_idx,
               conditions |-> conds]
      fail == [found |-> FALSE, raised |-> TRUE, idx |-> start_idx,
               conditions |-> conds]
  IN  IF start_idx >= Len(toks) THEN none
      ELSE IF ComparisonAt(toks, start_idx)
      THEN LET text == NumberText(toks[start_idx + 3].value)
           IN  IF ~IsFloatLiteral(text) THEN fail
               ELSE [found |-> TRUE, raised |-> FALSE,
                     condition |-> SearchCondition("pricing",
                                     ComparisonOperator(TypeAt(toks, start_idx)),
                                     FloatOf(text)),
                     idx |-> start_idx + 3,
                     conditions |-> conds]
      ELSE IF RangeAt(toks, start_idx)
      THEN LET lo == NumberText(toks[start_idx + 2].value)
               hi == NumberText(toks[start_idx + 4].value)
           IN  IF ~IsFloatLiteral(lo) \/ ~IsFloatLiteral(hi) THEN fail
               ELSE LET pair == RangeConditions(FloatOf(lo), FloatOf(hi))
                    IN  [found |-> TRUE, raised |-> FALSE,
                         condition |-> pair[2],
                         idx |-> start_idx + 4,
                         conditions |-> Append(conds, pair[1])]
      ELSE none

\* The run cut after its first CAR token.
CarRunEndFirst(toks, idx) ==
  IF idx < Len(toks) /\ TypeAt(toks, idx) = "CAR" THEN idx + 1 ELSE idx

\* Lines 137-142: the end of the run of CAR tokens that starts at idx
RECURSIVE CarRunEnd(_, _)
CarRunEnd(toks, idx) ==
  IF idx < Len(toks) /\ TypeAt(toks, idx) = "CAR"
  THEN CarRunEnd(toks, idx + 1) ELSE idx

\* "|".join(car_terms), line 146
RECURSIVE JoinTerms(_)
JoinTerms(terms) ==
  IF terms = <<>> THEN <<>>
  ELSE IF Len(terms) = 1 THEN terms[1]
  ELSE terms[1] \o <<"|">> \o JoinTerms(Tail(terms))

\* Lines 129-149: parse_car_condition(tokens, start_idx)
ParseCarCondition(toks, start_idx) ==
  LET end == IF start_idx >= Len(toks) THEN start_idx ELSE CarRunEnd(toks, start_idx)
      car_terms == [i \in 1..(end - start_idx) |-> toks[start_idx + i].value]
  IN  IF car_terms # <<>>
      THEN [found |-> TRUE,
            condition |-> SearchCondition("title", "~", TextValue(JoinTerms(car_terms))),
            idx |-> end]
      ELSE [found |-> FALSE, idx |-> start_idx]

\* Lines 157-179: one iteration of the parse loop
ParseStep ==
  /\ pc = "parse"
  /\ current_idx < Len(tokens)
  /\ LET token == tokens[current_idx + 1]
         price == ParsePriceCondition(tokens, current_idx, conditions)
         car   == ParseCarCondition(tokens, current_idx)
     IN  IF token.type = "FIND"
         THEN /\ current_idx' = current_idx + 1
              /\ UNCHANGED <<conditions, dropped, pc, raised>>
         ELSE IF price.raised
         THEN /\ raised' = TRUE
              /\ pc' = "raised"
              /\ UNCHANGED <<current_idx, conditions, dropped>>
         ELSE IF price.found
         THEN /\ conditions' = Append(price.conditions, price.condition)
              /\ current_idx' = price.idx
              /\ UNCHANGED <<dropped, pc, raised>>
         ELSE IF car.found
         THEN /\ conditions' = Append(conditions, car.condition)
              /\ current_idx' = car.idx
              /\ UNCHANGED <<dropped, pc, raised>>
         ELSE /\ current_idx' = current_idx + 1
              /\ dropped' = Append(dropped, token)
              /\ UNCHANGED <<conditions, pc, raised>>
  /\ UNCHANGED <<raw, query, position, tokens, skipped, filter>>
  /\ UNCHANGED dispatch_vars
  /\ UNCHANGED service_vars

\* Lines 157 and 181: the loop ends and parse returns self.conditions
ParseReturn ==
  /\ pc = "parse"
  /\ ~(current_idx < Len(tokens))
  /\ pc' = "build"
  /\ UNCHANGED <<raw, query, position, tokens, skipped, current_idx,
                 conditions, dropped, filter, raised>>
  /\ UNCHANGED dispatch_vars
  /\ UNCHANGED service_vars

----------------------------------------------------------------------------
\* QueryParser.build_pocketbase_query

\* Every value quoted, a number too.
QueryPartQuoted(condition) ==
  IF condition.field = "title"
  THEN "title ~ \"" \o Str(condition.value.text) \o "\""
  ELSE condition.field \o " " \o condition.operator \o " \""
         \o FloatStr(condition.value) \o "\""

\* Lines 190-195: one entry of query_parts
QueryPart(condition) ==
  IF condition.field = "title"
  THEN "title ~ \"" \o Str(condition.value.text) \o "\""
  ELSE condition.field \o " " \o condition.operator \o " " \o FloatStr(condition.value)

\* " && ".join(query_parts), line 197
RECURSIVE JoinParts(_)
JoinParts(parts) ==
  IF parts = <<>> THEN ""
  ELSE IF Len(parts) = 1 THEN parts[1]
  ELSE parts[1] \o " && " \o JoinParts(Tail(parts))

\* Lines 183-197
BuildPocketbaseQuery(conds) ==
  IF conds = <<>> THEN ""
  ELSE JoinParts([i \in DOMAIN conds |-> QueryPart(conds[i])])

\* Line 211: parse_search_query returns the filter built from the conditions
BuildQuery ==
  /\ pc = "build"
  /\ filter' = BuildPocketbaseQuery(conditions)
  /\ pc' = "done"
  /\ UNCHANGED <<raw, query, position, tokens, skipped, current_idx,
                 conditions, dropped, raised>>
  /\ UNCHANGED dispatch_vars
  /\ UNCHANGED service_vars

----------------------------------------------------------------------------
\* The dispatcher, src/app/utils/responses.py

\* GREETING_MESSAGES["hello"], lines 9-11
GreetingMessages ==
  { <<"h","i">>,
    <<"h","e","l","l","o">>,
    <<"h","e","y">>,
    <<"s","t","a","r","t">> }

FindPrefix == <<"f","i","n","d"," ">>

NextMessage == <<"n","e","x","t">>

\* The message lower-cased but not trimmed.
NormalizeMessageNoStrip(message) == Lower(message)

\* Line 57
NormalizeMessage(message) == Strip(Lower(message))

\* message[5:].strip(), line 65
SearchTermOf(message) == Strip(SliceFrom(message, Len(FindPrefix)))

\* Lines 47-74: get_message_type(message), the pair (message_type,
\* search_term) with <<>> for None and <<term>> for a term
GetMessageType(text) ==
  LET message == NormalizeMessage(text)
  IN  IF message \in GreetingMessages
      THEN [message_type |-> "greeting", search_term |-> <<>>]
      ELSE IF StartsWith(message, FindPrefix)
      THEN IF SearchTermOf(message) # <<>>
           THEN [message_type |-> "car_search",
                 search_term |-> <<SearchTermOf(message)>>]
           ELSE [message_type |-> "no_search_term", search_term |-> <<>>]
      ELSE IF message = NextMessage
      THEN [message_type |-> "next_page", search_term |-> <<>>]
      ELSE [message_type |-> "unknown", search_term |-> <<>>]

\* generate_response, line 87: the message is classified
ClassifyMessage ==
  /\ pc = "start"
  /\ message_type' = GetMessageType(raw).message_type
  /\ search_term' = GetMessageType(raw).search_term
  /\ pc' = "classified"
  /\ UNCHANGED raw
  /\ UNCHANGED parser_vars
  /\ UNCHANGED service_vars

\* generate_response, lines 89-91, and search_vehicles_by_title,
\* pocketbase.py line 388: a car search parses its search term
SearchVehiclesByTitle ==
  /\ pc = "classified"
  /\ message_type = "car_search"
  /\ TokenizeEntry(search_term[1])
  /\ UNCHANGED dispatch_vars
  /\ UNCHANGED service_vars

Next ==
  \/ ParseSearchQuery
  \/ TokenizeStep
  \/ TokenizeReturn
  \/ ParseStep
  \/ ParseReturn
  \/ BuildQuery

Spec == Init /\ [][Next]_vars

\* The dispatcher on inbound messages.
InitDispatch ==
  /\ raw \in Messages
  /\ Idle
  /\ NoService

NextDispatch ==
  \/ ClassifyMessage
  \/ SearchVehiclesByTitle
  \/ TokenizeStep
  \/ TokenizeReturn
  \/ ParseStep
  \/ ParseReturn
  \/ BuildQuery

SpecDispatch == InitDispatch /\ [][NextDispatch]_vars

----------------------------------------------------------------------------
\* process_whatsapp_message and generate_response over the record store

\* The inbound messages of the conversations followed.
ChatMessages ==
  { <<"f","i","n","d"," ","t","o","y","o","t","a">>,
    <<"F","i","n","d"," ","A","q","u","a">>,
    <<" ","f","i","n","d"," ","t","o","y","o","t","a">>,
    <<"n","e","x","t">>,
    <<"n","e","x","t"," ">>,
    <<"h","i">>,
    <<"f","i","n","d">> }

\* The keys of RESPONSES, responses.py lines 14-45
ResponseKeys ==
  {"greeting", "unknown", "no_search_term", "no_previous_search",
   "end_of_results"}

\* RESPONSES.get(message_type, RESPONSES["unknown"]), line 115
Responses(type) ==
  [kind |-> IF type \in ResponseKeys THEN type ELSE "unknown", page |-> 0]

\* `current_page or 1`, responses.py line 102 and whatsapp_utils.py line 125
PageOrFirst(current_page) == IF current_page = 0 THEN 1 ELSE current_page

\* pocketbase.py lines 390-406: the page the store answers with; a page
\* past the last one has no items
SearchResults(title, page) ==
  [items |-> page >= 1 /\ page <= total_pages, page |-> page]

\* pocketbase.py lines 420-442: the formatted page, or the message of
\* line 421 for a page without items
FormatSearchResults(results) ==
  IF ~results.items
  THEN [kind |-> "no_vehicles", page |-> 0]
  ELSE [kind |-> "results", page |-> results.page]

\* The next_page branch without the test of line 98.
HasNoPreviousSearchNever(record) == FALSE

\* `not user.last_search_query`, responses.py line 98
HasNoPreviousSearch(record) == record.last_search_query \in {<<>>, << <<>> >>}

\* The next_page branch without the test of line 106.
IsEndOfResultsNever(results) == FALSE

\* `not results['items']`, responses.py line 106
IsEndOfResults(results) == ~results.items

\* message_body.lower().startswith("find "), whatsapp_utils.py lines 117, 120
IsFindMessage(message_body) == StartsWith(Lower(message_body), FindPrefix)

\* message_body.lower() == "next", whatsapp_utils.py line 123
IsNextMessage(message_body) == Lower(message_body) = NextMessage

\* whatsapp_utils.py lines 116-122: update_user_data before the read of
\* line 124
UpdateUserData(message_body) ==
  IF IsFindMessage(message_body)
  THEN [increment_searches |-> TRUE,
        search_query |-> <<Strip(SliceFrom(message_body, Len(FindPrefix)))>>,
        current_page |-> 1]
  ELSE NoUpdate

\* pocketbase.py lines 132-149: the record after update(user_id,
\* update_data); total is the total_searches read at line 145
UpdatedUser(record, update, total) ==
  [last_search_query |->
     IF update.search_query \notin {<<>>, << <<>> >>}
     THEN update.search_query ELSE record.last_search_query,
   current_page |->
     IF update.current_page # 0
     THEN update.current_page ELSE record.current_page,
   total_searches |->
     IF update.increment_searches THEN total + 1 ELSE record.total_searches]

\* The conversation after the call has ended.  A search counts when it is
\* a message "find X" that returned with its first page; a "next" counts
\* when it is the message "next" and returned; both only when the store
\* and the channel answered every step; any other end stops the count.
Recorded(call) ==
  IF /\ call.outcome = "returned"
     /\ call.faults = <<>>
     /\ call.message_type = "car_search"
     /\ StartsWith(Lower(call.message), FindPrefix)
     /\ call.response.kind = "results"
  THEN [history EXCEPT !.find = call.search_term, !.nexts = 0, !.shown = 1]
  ELSE IF /\ call.outcome = "returned"
          /\ call.faults = <<>>
          /\ call.message_type = "next_page"
          /\ Lower(call.message) = NextMessage
          /\ history.find # <<>>
  THEN [history EXCEPT !.nexts = @ + 1,
                       !.shown = IF call.response.kind = "results"
                                 THEN call.response.page ELSE @]
  ELSE [history EXCEPT !.find = <<>>, !.nexts = 0, !.shown = 0]

\* whatsapp_utils.py lines 141-143: the exception is logged and raised again
Raise(p, fault) ==
  LET call == [h[p] EXCEPT !.pc = "done", !.outcome = "raised",
                           !.faults = Append(@, fault)]
  IN  /\ h' = [h EXCEPT ![p] = call]
      /\ history' = Recorded(call)
      /\ UNCHANGED users
      /\ UNCHANGED request_vars

\* whatsapp_utils.py lines 89-95: a message of the user arrives and a call
\* of process_whatsapp_message begins
ReceiveMessage(p, body) ==
  /\ h[p].pc \in {"idle", "done"}
  /\ h' = [h EXCEPT ![p] = [IdleHandler EXCEPT !.pc = "get_user",
                                               !.message = body]]
  /\ history' = [history EXCEPT !.handled = @ + 1]
  /\ UNCHANGED users
  /\ UNCHANGED request_vars

\* Line 98 and get_or_create_user, pocketbase.py lines 54-60: the first
\* record of the wa_id is looked up.  Any exception of the lookup, no
\* record or a failure of the store alike, is caught at line 59 and
\* answered by creating a record.
GetOrCreateUser(p, ok) ==
  /\ h[p].pc = "get_user"
  /\ h' = [h EXCEPT ![p] =
             IF ok /\ users # <<>>
             THEN [@ EXCEPT !.pc = "log_incoming",
                            !.user_id = 1,
                            !.before = users[1]]
             ELSE [@ EXCEPT !.pc = "create_user",
                            !.faults = IF ok THEN @
                                       ELSE Append(@, "get_first_list_item")]]
  /\ UNCHANGED <<users, history>>
  /\ UNCHANGED request_vars

\* get_or_create_user, pocketbase.py lines 61-72: a new record is added
\* and the call goes on with it; a failure leaves get_or_create_user
CreateUser(p, ok) ==
  /\ h[p].pc = "create_user"
  /\ IF ok
     THEN /\ users' = Append(users, NewUser)
          /\ h' = [h EXCEPT ![p] = [@ EXCEPT !.pc = "log_incoming",
                                             !.user_id = Len(users) + 1,
                                             !.before = NewUser]]
          /\ UNCHANGED history
          /\ UNCHANGED request_vars
     ELSE Raise(p, "create")

\* whatsapp_utils.py lines 104-110: the log of the incoming message
LogIncoming(p, ok) ==
  /\ h[p].pc = "log_incoming"
  /\ IF ok
     THEN /\ h' = [h EXCEPT ![p].pc = "respond"]
          /\ UNCHANGED <<users, history>>
          /\ UNCHANGED request_vars
     ELSE Raise(p, "log_message")

\* The record of the call p in the store.
UserOf(p) == users[h[p].user_id]

\* Line 113 and responses.py lines 87-94, 115: the message is classified
\* and the branch taken; a message that is neither a search nor "next" is
\* answered from RESPONSES
GenerateResponse(p) ==
  /\ h[p].pc = "respond"
  /\ LET type == GetMessageType(h[p].message)
         call == [h[p] EXCEPT !.message_type = type.message_type,
                              !.search_term = type.search_term]
     IN  h' = [h EXCEPT ![p] =
                 IF type.message_type = "car_search"
                 THEN [call EXCEPT !.pc = "car_search"]
                 ELSE IF type.message_type = "next_page"
                 THEN [call EXCEPT !.pc = "next_get_user"]
                 ELSE [call EXCEPT !.pc = "update",
                                   !.response = Responses(type.message_type)]]
  /\ UNCHANGED <<users, history>>
  /\ UNCHANGED request_vars

\* responses.py lines 91-92: the first page of a new search; a failure of
\* the store leaves generate_response and process_whatsapp_message.
\* parse_search_query runs inside search_vehicles_by_title, pocketbase.py
\* line 388.
CarSearch(p, ok) ==
  /\ h[p].pc = "car_search"
  /\ IF ok
     THEN LET results == SearchResults(h[p].search_term[1], 1)
          IN  /\ h' = [h EXCEPT ![p] =
                         [@ EXCEPT !.pc = "update",
                                   !.searches =
                                      Append(@, [title |-> h[p].search_term[1],
                                                 page |-> 1]),
                                   !.results = <<results>>,
                                   !.response = FormatSearchResults(results)]]
              /\ UNCHANGED <<users, history>>
              /\ UNCHANGED request_vars
          /\ UNCHANGED request_vars
     ELSE Raise(p, "search_vehicles_by_title")

\* responses.py lines 97-102: the record is read; without a stored search
\* the answer is no_previous_search; a failure of the store is caught at
\* line 111 and answered with RESPONSES["unknown"]
NextGetUser(p, ok) ==
  /\ h[p].pc = "next_get_user"
  /\ h' = [h EXCEPT ![p] =
             IF ~ok
             THEN [@ EXCEPT !.pc = "update",
                            !.faults = Append(@, "get_one"),
                            !.response = Responses("unknown")]
             ELSE IF HasNoPreviousSearch(UserOf(p))
             THEN [@ EXCEPT !.pc = "update",
                            !.user_read = <<UserOf(p)>>,
                            !.response = Responses("no_previous_search")]
             ELSE [@ EXCEPT !.pc = "next_search",
                            !.user_read = <<UserOf(p)>>,
                            !.page = PageOrFirst(UserOf(p).current_page) + 1]]
  /\ UNCHANGED <<users, history>>
  /\ UNCHANGED request_vars

\* responses.py lines 103-113: the next page of the stored search; a page
\* without items is answered with end_of_results; a failure of the store
\* is caught at line 111
NextSearch(p, ok) ==
  /\ h[p].pc = "next_search"
  /\ LET title == h[p].user_read[1].last_search_query[1]
         results == SearchResults(title, h[p].page)
     IN  h' = [h EXCEPT ![p] =
                 IF ~ok
                 THEN [@ EXCEPT !.pc = "update",
                                !.faults = Append(@, "search_vehicles_by_title"),
                                !.response = Responses("unknown")]
                 ELSE [@ EXCEPT !.pc = "update",
                                !.searches =
                                   Append(@, [title |-> title,
                                              page |-> h[p].page]),
                                !.results = <<results>>,
                                !.response =
                                   IF IsEndOfResults(results)
                                   THEN Responses("end_of_results")
                                   ELSE FormatSearchResults(results)]]
  /\ UNCHANGED <<users, history>>
  /\ UNCHANGED request_vars

\* whatsapp_utils.py lines 116-123: update_user_data from the raw message
\* body; only a body equal to "next" goes on to read the record
PrepareUpdate(p) ==
  /\ h[p].pc = "update"
  /\ LET update == UpdateUserData(h[p].message)
     IN  h' = [h EXCEPT ![p] =
                 [@ EXCEPT !.update = update,
                           !.pc = IF IsFindMessage(h[p].message)
                                  THEN "read_searches"
                                  ELSE IF IsNextMessage(h[p].message)
                                  THEN "read_page"
                                  ELSE "write_user"]]
  /\ UNCHANGED <<users, history>>
  /\ UNCHANGED request_vars

\* Lines 124-125: the record is read again and its page advanced, whatever
\* generate_response answered
ReadCurrentPage(p, ok) ==
  /\ h[p].pc = "read_page"
  /\ IF ok
     THEN /\ h' = [h EXCEPT ![p] =
                     [@ EXCEPT !.pc = "write_user",
                               !.update.current_page =
                                  PageOrFirst(UserOf(p).current_page) + 1]]
          /\ UNCHANGED <<users, history>>
          /\ UNCHANGED request_vars
     ELSE Raise(p, "get_one")

\* update_user_interaction, pocketbase.py lines 144-146: total_searches is
\* read for a search
ReadTotalSearches(p, ok) ==
  /\ h[p].pc = "read_searches"
  /\ IF ok
     THEN /\ h' = [h EXCEPT ![p] =
                     [@ EXCEPT !.pc = "write_user",
                               !.total_searches = UserOf(p).total_searches]]
          /\ UNCHANGED <<users, history>>
          /\ UNCHANGED request_vars
     ELSE Raise(p, "get_one")

\* update_user_interaction, pocketbase.py lines 132-152: the record is
\* written; a failure is raised again
UpdateUserInteraction(p, ok) ==
  /\ h[p].pc = "write_user"
  /\ IF ok
     THEN /\ users' = [users EXCEPT ![h[p].user_id] =
                         UpdatedUser(@, h[p].update, h[p].total_searches)]
          /\ h' = [h EXCEPT ![p].pc = "log_outgoing"]
          /\ UNCHANGED history
          /\ UNCHANGED request_vars
     ELSE Raise(p, "update")

\* whatsapp_utils.py lines 130-135: the log of the outgoing message
LogOutgoing(p, ok) ==
  /\ h[p].pc = "log_outgoing"
  /\ IF ok
     THEN /\ h' = [h EXCEPT ![p].pc = "send"]
          /\ UNCHANGED <<users, history>>
          /\ UNCHANGED request_vars
     ELSE Raise(p, "log_message")

\* Lines 138-139 and send_message, lines 40-68: a failure of the channel is
\* caught inside send_message, which returns an error tuple the caller
\* ignores; the call returns normally either way
SendMessage(p, ok) ==
  /\ h[p].pc = "send"
  /\ LET call == [h[p] EXCEPT !.pc = "done", !.outcome = "returned",
                              !.faults = IF ok THEN @
                                         ELSE Append(@, "send_message")]
     IN  /\ h' = [h EXCEPT ![p] = call]
         /\ history' = Recorded(call)
  /\ UNCHANGED users
  /\ UNCHANGED request_vars

\* The messages of a conversation and the pages of listings followed.
MaxMessages == 3

MaxPages == 2

\* One user's messages, handled one after another; the store and the
\* channel may fail at every step.
InitChat ==
  /\ raw = <<>>
  /\ Idle
  /\ users = <<>>
  /\ total_pages \in 0..MaxPages
  /\ h = [p \in Handlers |-> IdleHandler]
  /\ history = NoHistory
  /\ price_result = <<>>

\* The next message of the conversation arrives when the call before it
\* has ended.
ReceiveNextMessage ==
  /\ history.handled < MaxMessages
  /\ \E body \in ChatMessages : ReceiveMessage(1, body)

NextChat ==
  \/ ReceiveNextMessage
  \/ \E ok \in BOOLEAN : GetOrCreateUser(1, ok)
  \/ \E ok \in BOOLEAN : CreateUser(1, ok)
  \/ \E ok \in BOOLEAN : LogIncoming(1, ok)
  \/ GenerateResponse(1)
  \/ \E ok \in BOOLEAN : CarSearch(1, ok)
  \/ \E ok \in BOOLEAN : NextGetUser(1, ok)
  \/ \E ok \in BOOLEAN : NextSearch(1, ok)
  \/ PrepareUpdate(1)
  \/ \E ok \in BOOLEAN : ReadCurrentPage(1, ok)
  \/ \E ok \in BOOLEAN : ReadTotalSearches(1, ok)
  \/ \E ok \in BOOLEAN : UpdateUserInteraction(1, ok)
  \/ \E ok \in BOOLEAN : LogOutgoing(1, ok)
  \/ \E ok \in BOOLEAN : SendMessage(1, ok)

SpecChat == InitChat /\ [][NextChat]_vars

----------------------------------------------------------------------------
\* Two concurrent "next" messages of one user

\* The record after "find toyota" and some "next" messages.
InitRace ==
  /\ raw = <<>>
  /\ Idle
  /\ users \in { << [last_search_query |-> << <<"t","o","y","o","t","a">> >>,
                     current_page |-> page, total_searches |-> 1] >> :
                 page \in 1..MaxPages }
  /\ total_pages \in 0..MaxPages
  /\ h = [p \in Handlers |-> IdleHandler]
  /\ history = NoHistory
  /\ price_result = <<>>

\* Each of the two calls receives the message "next", once.
ReceiveNext(p) ==
  /\ h[p].pc = "idle"
  /\ ReceiveMessage(p, NextMessage)

\* The calls run with no lock between them, interleaved at the single
\* reads and writes of the store; the store and the channel answer every
\* step.
NextRace ==
  \E p \in Handlers :
    \/ ReceiveNext(p)
    \/ GetOrCreateUser(p, TRUE)
    \/ LogIncoming(p, TRUE)
    \/ GenerateResponse(p)
    \/ NextGetUser(p, TRUE)
    \/ NextSearch(p, TRUE)
    \/ PrepareUpdate(p)
    \/ ReadCurrentPage(p, TRUE)
    \/ UpdateUserInteraction(p, TRUE)
    \/ LogOutgoing(p, TRUE)
    \/ SendMessage(p, TRUE)

SpecRace == InitRace /\ [][NextRace]_vars

----------------------------------------------------------------------------
\* PocketBaseClient.parse_price

\* The first place of old in s, counted from 1; 0 when s does not hold it
FirstOccurrence(s, old) ==
  LET starts == {i \in 1..(Len(s) - Len(old) + 1) : SubSeq(s, i, i + Len(old) - 1) = old}
  IN  IF starts = {} THEN 0 ELSE CHOOSE i \in starts : \A j \in starts : i <= j

\* str.replace(old, ""): every occurrence of old, found from the left
\* without overlap, removed.  Letters are compared as they are.
RECURSIVE Remove(_, _)
Remove(s, old) ==
  LET at == FirstOccurrence(s, old)
  IN  IF at = 0 THEN s
      ELSE SubSeq(s, 1, at - 1) \o Remove(SubSeq(s, at + Len(old), Len(s)), old)

\* The removal with letters compared without regard to case.
RECURSIVE RemoveAnyCase(_, _)
RemoveAnyCase(s, old) ==
  LET at == FirstOccurrence(Lower(s), Lower(old))
  IN  IF at = 0 THEN s
      ELSE SubSeq(s, 1, at - 1) \o RemoveAnyCase(SubSeq(s, at + Len(old), Len(s)), old)

RsDot == <<"R","s",".">>

Rs == <<"R","s">>

\* Lines 253, 256: the currency symbol, the surrounding whitespace and
\* the commas removed
PriceDigits(price_str) ==
  RemoveCommas(Strip(Remove(Remove(price_str, RsDot), Rs)))

\* The text of an integer without its sign.
Unsigned(s) == IF s # <<>> /\ s[1] \in {"+", "-"} THEN Tail(s) ELSE s

\* The whitespace int() skips around the number: that of str.isspace without
\* the four separators chr(28)..chr(31), which strip() removes and int()
\* rejects.
SeparatorSet == {"", "", "", ""}

IntSpaceSet == SpaceSet \ SeparatorSet

\* s without the whitespace int() skips at its two ends
IntStrip(s) ==
  LET n     == Len(s)
      lead  == CHOOSE z \in 0..n :
                 /\ z = n \/ s[z + 1] \notin IntSpaceSet
                 /\ \A t \in 1..z : s[t] \in IntSpaceSet
      trail == CHOOSE z \in 0..(n - lead) :
                 /\ z = n - lead \/ s[n - z] \notin IntSpaceSet
                 /\ \A t \in 0..(z - 1) : s[n - t] \in IntSpaceSet
  IN  SubSeq(s, lead + 1, n - trail)

\* sys.int_info.default_max_str_digits: int() raises ValueError for a text of
\* more digits, the leading zeros counted and the underscores not.
DEFAULT_MAX_STR_DIGITS == 4300

\* Whether int(s) returns: surrounding whitespace, an optional sign, then
\* decimal digits with single underscores between digits, no more digits than
\* the conversion takes.
IsIntLiteral(s) ==
  LET body == Unsigned(IntStrip(s))
  IN  /\ body # <<>>
      /\ \A i \in DOMAIN body :
           \/ IsDigit(body[i])
           \/ /\ body[i] = "_"
              /\ i > 1 /\ i < Len(body)
              /\ IsDigit(body[i - 1]) /\ IsDigit(body[i + 1])
      /\ Len(SelectSeq(body, IsDigit)) <= DEFAULT_MAX_STR_DIGITS

\* An int has no width: it is written by its sign and its decimal digits, the
\* highest first and without leading zeros; zero is "0" and never negative.
IntegerValue(negative, digits) == [negative |-> negative, digits |-> digits]

\* int(s) for such a text
IntValue(s) ==
  LET t  == IntStrip(s)
      ds == DropLeadingZeros(SelectSeq(Unsigned(t), IsDigit))
  IN  IF ds = <<>> THEN IntegerValue(FALSE, <<"0">>)
      ELSE IntegerValue(t[1] = "-", ds)

\* What parse_price hands back: the integer, or the ValueError of line 262.
PriceValue(digits) ==
  IF IsIntLiteral(digits)
  THEN [value |-> IntValue(digits)]
  ELSE [error |-> "ValueError"]

\* Lines 241-262: parse_price(price_str)
ParsePrice(price_str) == PriceValue(PriceDigits(price_str))

\* The price texts followed: a currency symbol before a number text.
PricePrefixes ==
  { <<>>,
    <<"R","s",".">>,
    <<"R","s">>,
    <<"R","s"," ">>,
    <<"R","s","."," ">>,
    <<"r","s",".">>,
    <<"R","S">>,
    <<"r","s"," ">> }

PriceBodies ==
  { <<"6","5","0","0","0","0","0">>,
    <<"6",",","5","0","0",",","0","0","0">>,
    <<"6","5",",","0","0",",","0","0","0">>,
    <<"a","b","c">>,
    <<"6","5","0","0","0","0","0",".","5","0">>,
    <<>>,
    <<"-","5","0","0">>,
    <<"1","_","0","0","0">>,
    <<"5","",",">>,
    <<"5","",",">>,
    [i \in 1..DEFAULT_MAX_STR_DIGITS |-> "7"],
    [i \in 1..(DEFAULT_MAX_STR_DIGITS + 1) |-> "7"] }

PriceTexts == { p \o b : p \in PricePrefixes, b \in PriceBodies }

InitPrice ==
  /\ raw \in PriceTexts
  /\ Idle
  /\ NoService

\* parse_price(raw) is called and returns or raises
CallParsePrice ==
  /\ pc = "start"
  /\ price_result = <<>>
  /\ price_result' = <<ParsePrice(raw)>>
  /\ pc' = "priced"
  /\ UNCHANGED <<raw, parser_vars, dispatch_vars, users, total_pages, h,
                 history>>

NextPrice == CallParsePrice

SpecPrice == InitPrice /\ [][NextPrice]_vars

----------------------------------------------------------------------------
\* Properties of the parser, checked under Spec.

\* Whether sub occurs in s.
Contains(s, sub) ==
  \E i \in 0..(Len(s) - Len(sub)) : SubSeq(s, i + 1, i + Len(sub)) = sub

PricingConditions == SelectSeq(conditions, LAMBDA c : c.field = "pricing")

TitleConditions == SelectSeq(conditions, LAMBDA c : c.field = "title")

\* The value of a NUMBER token: its text without the grouping commas.
NumberOf(token) == FloatOf(RemoveCommas(token.value))

\* C1: when parse_search_query has returned, every token the parse loop
\* passed over without a rule consuming it (neither the FIND skip, nor a
\* comparison phrase, a range or a brand run) is a term of a title condition
\* of the filter.
C1_NoTermLost ==
  pc = "done" =>
    \A i \in DOMAIN dropped :
      \E j \in DOMAIN conditions :
        /\ conditions[j].field = "title"
        /\ Contains(conditions[j].value.text, dropped[i].value)

\* The tokens from offset i are BETWEEN NUMBER "-" NUMBER.
IsDashRange(toks, i) ==
  /\ i + 3 < Len(toks)
  /\ toks[i + 1].type = "BETWEEN"
  /\ toks[i + 2].type = "NUMBER"
  /\ toks[i + 3].value = <<"-">>
  /\ toks[i + 4].type = "NUMBER"

\* C2: a search text whose only price phrase is a dash-separated range
\* "between A - B" yields exactly two pricing conditions, >= A and <= B.
C2_DashRange ==
  pc = "done" =>
    \A i \in 0..(Len(tokens) - 1) :
      ( /\ IsDashRange(tokens, i)
        /\ \A k \in DOMAIN tokens : tokens[k].type \notin {"HIGHER", "LOWER", "AND"}
        /\ Cardinality({k \in DOMAIN tokens : tokens[k].type = "BETWEEN"}) = 1 )
      => PricingConditions =
           << SearchCondition("pricing", ">=", NumberOf(tokens[i + 2])),
              SearchCondition("pricing", "<=", NumberOf(tokens[i + 4])) >>

\* The parse loop is at a token.
AtToken == pc = "parse" /\ current_idx < Len(tokens)

\* The types of the n tokens at the cursor are those of types.
CursorTypes(types) ==
  /\ AtToken
  /\ current_idx + Len(types) <= Len(tokens)
  /\ \A k \in DOMAIN types : tokens[current_idx + k].type = types[k]

RangeAtCursor == CursorTypes(<<"BETWEEN", "NUMBER", "AND", "NUMBER">>)

ComparisonAtCursor ==
  \/ CursorTypes(<<"HIGHER", "THAN", "NUMBER">>)
  \/ CursorTypes(<<"LOWER", "THAN", "NUMBER">>)

\* C3: a step of the parse loop at BETWEEN NUMBER AND NUMBER consumes the four
\* tokens and appends pricing >= first number, then pricing <= second number,
\* adjacent and in the order written.
C3_RangeStep ==
  [][ RangeAtCursor =>
        /\ current_idx' = current_idx + 4
        /\ conditions' = conditions \o
             << SearchCondition("pricing", ">=", NumberOf(tokens[current_idx + 2])),
                SearchCondition("pricing", "<=", NumberOf(tokens[current_idx + 4])) >>
    ]_vars

\* A range written with the larger number first has been parsed.
C3_Witness ==
  /\ pc = "done"
  /\ \E i \in 1..(Len(conditions) - 1) :
       /\ conditions[i] = SearchCondition("pricing", ">=", FloatValue(<<"9", "0", "0", "0", "0", "0", "0", "5">>, 7))
       /\ conditions[i + 1] = SearchCondition("pricing", "<=", FloatValue(<<"6">>, 7))

\* The conditions a step of the parse loop appends.
Appended == SubSeq(conditions', Len(conditions) + 1, Len(conditions'))

\* C4: a step of the parse loop at HIGHER-or-LOWER THAN NUMBER appends the one
\* condition pricing >= number (HIGHER) or pricing <= number (LOWER) and moves
\* the cursor by 3; no other step appends a single pricing condition, and a
\* step at neither a comparison phrase nor a range appends no pricing
\* condition.
C4_ComparisonStep ==
  [][ AtToken =>
        /\ Len(conditions') >= Len(conditions)
        /\ SubSeq(conditions', 1, Len(conditions)) = conditions
        /\ ComparisonAtCursor =>
             /\ current_idx' = current_idx + 3
             /\ conditions' = Append(conditions,
                  SearchCondition("pricing",
                    IF tokens[current_idx + 1].type = "HIGHER" THEN ">=" ELSE "<=",
                    NumberOf(tokens[current_idx + 3])))
        /\ ~ComparisonAtCursor =>
             ~(Len(Appended) = 1 /\ Appended[1].field = "pricing")
        /\ (~ComparisonAtCursor /\ ~RangeAtCursor) =>
             \A k \in DOMAIN Appended : Appended[k].field # "pricing"
    ]_vars

\* A LOWER comparison has been parsed, and so has a phrase cut short.
C4_Witness ==
  /\ pc = "done"
  /\ conditions = << SearchCondition("pricing", "<=", FloatValue(<<"6">>, 7)) >>
  /\ \E i \in DOMAIN dropped : dropped[i].type = "HIGHER"

TokenEnd(token) == token.position + Len(token.value)

\* The sum of the token lengths.
RECURSIVE TokenChars(_)
TokenChars(toks) ==
  IF toks = <<>> THEN 0 ELSE Len(Head(toks).value) + TokenChars(Tail(toks))

\* tokenize has returned.
Tokenized == pc \in {"parse", "build", "done"}

\* The tokens are non-empty spans of the scanned text, at strictly increasing
\* positions, none overlapping the next, all behind the cursor, and the
\* cursor is within the text.
TokenSpans ==
  /\ position <= Len(query)
  /\ \A i \in DOMAIN tokens :
       /\ Len(tokens[i].value) >= 1
       /\ tokens[i].position >= 0
       /\ TokenEnd(tokens[i]) <= position
       /\ tokens[i].value = SubSeq(query, tokens[i].position + 1, TokenEnd(tokens[i]))
  /\ \A i \in 1..(Len(tokens) - 1) :
       /\ tokens[i].position < tokens[i + 1].position
       /\ TokenEnd(tokens[i]) <= tokens[i + 1].position

\* Each iteration of the scanning loop moves the cursor forward.
CursorAdvances == (pc = "tokenize" /\ pc' = "tokenize") => position' >= position + 1

\* C5 as stated: tokenize never fails, every iteration advances the cursor,
\* the tokens are increasing, non-overlapping spans, and the token lengths
\* plus the skipped whitespace add up to the length of the original input.
C5_OriginalLength ==
  /\ [](TokenSpans /\ ~raised)
  /\ [][CursorAdvances]_vars
  /\ [](Tokenized => TokenChars(tokens) + skipped = Len(raw))

\* C5 as amended: the same, with the token lengths plus the skipped
\* whitespace adding up to the length of the lower-cased, trimmed input.
C5_Tokenize ==
  /\ [](TokenSpans /\ ~raised)
  /\ [][CursorAdvances]_vars
  /\ [](Tokenized => TokenChars(tokens) + skipped = Len(Strip(Lower(raw))))

\* A text with surrounding whitespace has been tokenized into several tokens,
\* with whitespace skipped between them.
C5_Witness ==
  /\ Tokenized
  /\ Len(tokens) >= 2
  /\ skipped >= 1
  /\ Len(raw) > Len(query)

\* C6: parse_search_query never raises: the text of every NUMBER token is,
\* without its commas, a float literal; the parse cursor strictly increases
\* and ends at the end of the token list; and what is returned is a string.
C6_NeverRaises ==
  /\ [](~raised /\ pc # "raised")
  /\ [](\A i \in DOMAIN tokens :
          tokens[i].type = "NUMBER" => IsFloatLiteral(RemoveCommas(tokens[i].value)))
  /\ [](Tokenized => current_idx <= Len(tokens))
  /\ [](pc \in {"build", "done"} => current_idx = Len(tokens))
  /\ [](pc = "done" => filter \in STRING)
  /\ [][(pc = "parse" /\ pc' = "parse") => current_idx' > current_idx]_vars

\* A number written with grouping commas has gone through a price rule and
\* the filter has been returned.
C6_Witness ==
  /\ pc = "done"
  /\ \E i \in DOMAIN tokens :
       /\ i > 1
       /\ tokens[i].type = "NUMBER"
       /\ Contains(tokens[i].value, <<",">>)
       /\ tokens[i - 1].type = "THAN"
  /\ PricingConditions # <<>>

\* The number of CAR tokens toks starts with.
RECURSIVE LeadingCars(_)
LeadingCars(toks) ==
  IF toks # <<>> /\ Head(toks).type = "CAR" THEN 1 + LeadingCars(Tail(toks)) ELSE 0

\* The texts of the first n tokens, joined by "|" in their order.
RECURSIVE RunText(_, _)
RunText(toks, n) ==
  IF n = 1 THEN toks[1].value
  ELSE RunText(toks, n - 1) \o <<"|">> \o toks[n].value

\* One joined text for each maximal run of CAR tokens, in the order of the runs.
RECURSIVE BrandRuns(_)
BrandRuns(toks) ==
  IF toks = <<>> THEN <<>>
  ELSE IF Head(toks).type # "CAR" THEN BrandRuns(Tail(toks))
  ELSE LET n == LeadingCars(toks)
       IN  <<RunText(toks, n)>> \o BrandRuns(SubSeq(toks, n + 1, Len(toks)))

\* C7: the title conditions are, in order, one per maximal run of CAR tokens,
\* each title ~ the run's texts joined by "|"; the cursor never stands
\* inside a run, and no other condition has a text value.
C7_BrandRuns ==
  /\ (AtToken /\ current_idx > 0 /\ tokens[current_idx + 1].type = "CAR")
       => tokens[current_idx].type # "CAR"
  /\ pc \in {"build", "done"} =>
       /\ Len(TitleConditions) = Len(BrandRuns(tokens))
       /\ \A i \in DOMAIN TitleConditions :
            TitleConditions[i] =
              SearchCondition("title", "~", TextValue(BrandRuns(tokens)[i]))
       /\ Len(TitleConditions) + Len(PricingConditions) = Len(conditions)

\* A run of two brands, the second of two words, has become one condition.
C7_Witness ==
  /\ pc = "done"
  /\ Len(conditions) = 1
  /\ conditions[1].field = "title"
  /\ Str(conditions[1].value.text) = "toyota|land rover"

\* One clause of the filter, as the filter grammar has it.
Clause(c) ==
  IF c.field = "title"
  THEN "title ~ " \o "\"" \o Str(c.value.text) \o "\""
  ELSE c.field \o " " \o c.operator \o " " \o FloatStr(c.value)

\* The clauses of the conditions in their order, " && " between them.
RECURSIVE Rendered(_)
Rendered(conds) ==
  IF conds = <<>> THEN ""
  ELSE IF Len(conds) = 1 THEN Clause(conds[1])
  ELSE Rendered(SubSeq(conds, 1, Len(conds) - 1)) \o " && " \o Clause(conds[Len(conds)])

\* C8: the filter is one clause per condition, in the order extracted, joined
\* by " && "; a title clause quotes its value, any other clause does not; no
\* condition gives the empty string.
C8_Build ==
  pc = "done" =>
    /\ filter = Rendered(conditions)
    /\ conditions = <<>> => filter = ""

\* A title condition and a pricing condition have been rendered.
C8_Witness ==
  /\ pc = "done"
  /\ filter = "title ~ \"toyota\" && pricing >= 6000000.0"

----------------------------------------------------------------------------
\* Properties of the dispatcher, checked under SpecDispatch.

\* The message as the dispatcher reads it: lower-cased and trimmed.
Trimmed == Strip(Lower(raw))

\* C9: a message that is "find" with nothing after it is classified
\* no_search_term.
C9_FindAlone ==
  (pc = "classified" /\ Trimmed = <<"f","i","n","d">>)
    => message_type = "no_search_term"

\* C10: every message gets one of the five types: a greeting for a member of
\* the greeting set, car_search with the trimmed remainder for a text that
\* starts with "find ", next_page for "next", unknown for anything else; a
\* search term comes only with car_search and is not empty.
C10_Classification ==
  pc # "start" =>
    LET greeting == Trimmed \in { <<"h","i">>, <<"h","e","l","l","o">>,
                                  <<"h","e","y">>, <<"s","t","a","r","t">> }
        find == StartsWith(Trimmed, <<"f","i","n","d"," ">>)
        next == Trimmed = <<"n","e","x","t">>
    IN  /\ message_type \in {"greeting", "car_search", "no_search_term",
                             "next_page", "unknown"}
        /\ greeting => message_type = "greeting"
        /\ find => /\ message_type = "car_search"
                   /\ search_term = <<Strip(SubSeq(Trimmed, 6, Len(Trimmed)))>>
        /\ next => message_type = "next_page"
        /\ ~(greeting \/ find \/ next) => message_type = "unknown"
        /\ search_term # <<>> => (message_type = "car_search" /\ search_term[1] # <<>>)
        /\ message_type = "car_search" => search_term # <<>>

\* An upper-case message with doubled spaces has been classified a car search.
C10_Witness ==
  /\ pc = "classified"
  /\ message_type = "car_search"
  /\ raw # Lower(raw)
  /\ Len(raw) > Len(search_term[1]) + 5

----------------------------------------------------------------------------
\* Properties of process_whatsapp_message, checked under SpecChat.

\* The record the next_page branch read at responses.py line 97 holds no
\* search.
ReadNoSearch(call) ==
  /\ call.message_type = "next_page"
  /\ call.user_read # <<>>
  /\ call.user_read[1].last_search_query = <<>>

\* C11: a "next" of a user whose record holds no last_search_query is
\* answered with no_previous_search, and on that path neither the query
\* parser nor the vehicle search is invoked: the call makes no search, has
\* no results, and the parser stays where it was.
C11_NoPreviousSearch ==
  \A p \in Handlers :
    /\ ReadNoSearch(h[p]) =>
         /\ h[p].response = Responses("no_previous_search")
         /\ h[p].searches = <<>>
         /\ h[p].results = <<>>
         /\ h[p].pc \in {"update", "read_page", "write_user", "log_outgoing",
                         "send", "done"}
    /\ h[p].response.kind = "no_previous_search" =>
         /\ ReadNoSearch(h[p])
         /\ h[p].searches = <<>>
    /\ pc = "start" /\ tokens = <<>> /\ filter = ""

\* A "next" without a stored search has been answered and sent.
C11_Witness ==
  /\ h[1].pc = "done"
  /\ h[1].outcome = "returned"
  /\ ReadNoSearch(h[1])
  /\ h[1].response.kind = "no_previous_search"

\* The store answered the call's search with a page without items.
EmptyPage(call) == call.results # <<>> /\ ~call.results[1].items

\* C12: a page without items is answered with end_of_results for a "next"
\* and with the no-vehicles message for a new search; neither raises (a
\* call only raises after a store operation failed); end_of_results is
\* never the answer to a new search and the no-vehicles message never the
\* answer to a "next".
C12_EmptyPages ==
  \A p \in Handlers :
    /\ (EmptyPage(h[p]) /\ h[p].message_type = "next_page") =>
         h[p].response = Responses("end_of_results")
    /\ (EmptyPage(h[p]) /\ h[p].message_type = "car_search") =>
         h[p].response = [kind |-> "no_vehicles", page |-> 0]
    /\ (EmptyPage(h[p]) /\ h[p].faults = <<>>) => h[p].outcome # "raised"
    /\ h[p].response.kind = "end_of_results" =>
         h[p].message_type = "next_page" /\ EmptyPage(h[p])
    /\ h[p].response.kind = "no_vehicles" =>
         h[p].message_type = "car_search" /\ EmptyPage(h[p])

\* A "next" past the last page has been answered with end_of_results and
\* sent.
C12_Witness ==
  /\ h[1].pc = "done"
  /\ h[1].outcome = "returned"
  /\ h[1].faults = <<>>
  /\ h[1].message_type = "next_page"
  /\ EmptyPage(h[1])
  /\ h[1].response.kind = "end_of_results"

\* C13: a failure of the record store or of the outbound channel during a
\* call is propagated to the caller of process_whatsapp_message, never
\* swallowed: a call during which an operation failed ends by raising,
\* for a search, a "next" and the final send alike.
C13_FailuresPropagate ==
  \A p \in Handlers :
    (h[p].pc = "done" /\ h[p].faults # <<>>) => h[p].outcome = "raised"

\* C15: with the user's messages handled one at a time, after a successful
\* "find X" the record has last_search_query = X (in the case the user
\* wrote it) and current_page = 1; the k-th consecutive "next" after it
\* queries page k+1 of X and leaves current_page = k+1; so the stored
\* current_page always equals the page most recently shown; a new "find"
\* resets it to 1.
C15_PageShown ==
  (h[1].pc = "done" /\ history.find # <<>>) =>
    /\ UserOf(1).last_search_query # <<>>
    /\ Lower(UserOf(1).last_search_query[1]) = history.find[1]
    /\ UserOf(1).current_page = history.nexts + 1
    /\ h[1].message_type = "next_page" =>
         h[1].searches = << [title |-> UserOf(1).last_search_query[1],
                             page |-> history.nexts + 1] >>
    /\ UserOf(1).current_page = history.shown

\* The call is a "next" that has returned without showing a page: answered
\* with no_previous_search, with end_of_results or, after a failure of the
\* store, with the fallback.
NextShowedNothing(call) ==
  /\ call.pc = "done"
  /\ call.outcome = "returned"
  /\ call.message_type = "next_page"
  /\ call.response.kind \in {"no_previous_search", "end_of_results", "unknown"}

\* C16: a "next" that shows no page leaves the stored current_page and
\* last_search_query as they were when the call began.
C16_NothingShownNothingStored ==
  NextShowedNothing(h[1]) =>
    /\ UserOf(1).current_page = h[1].before.current_page
    /\ UserOf(1).last_search_query = h[1].before.last_search_query

\* The call has prepared update_user_data (whatsapp_utils.py lines 116-125)
\* and written it, and no operation of the store or the channel failed.
Updated(call) ==
  /\ call.pc \in {"log_outgoing", "send", "done"}
  /\ call.faults = <<>>

\* C17: the state update of process_whatsapp_message agrees with the
\* classification of get_message_type for every text: last_search_query
\* is set, current_page reset to 1 and total_searches incremented exactly
\* when the message is a car_search, and current_page incremented exactly
\* when it is a next_page.
C17_UpdateAgrees ==
  Updated(h[1]) =>
    /\ h[1].message_type = "car_search" <=>
         /\ h[1].update.search_query # <<>>
         /\ Lower(h[1].update.search_query[1]) = h[1].search_term[1]
         /\ UserOf(1).last_search_query = h[1].update.search_query
         /\ h[1].update.current_page = 1
         /\ h[1].update.increment_searches
         /\ UserOf(1).total_searches = h[1].before.total_searches + 1
    /\ h[1].message_type = "next_page" <=>
         UserOf(1).current_page = h[1].before.current_page + 1

----------------------------------------------------------------------------
\* Properties of parse_price, checked under SpecPrice.

\* parse_price as stated: "Rs." and "Rs" removed in any letter case.
StatedPrice(price_str) ==
  PriceValue(RemoveCommas(Strip(RemoveAnyCase(RemoveAnyCase(price_str, RsDot),
                                              Rs))))

\* C14: parse_price strips a currency symbol "Rs." or "Rs" in any letter
\* case and all commas, and returns the integer when the rest is a base-10
\* integer literal and raises ValueError otherwise.
C14_ParsePrice ==
  pc = "priced" => price_result = <<StatedPrice(raw)>>

----------------------------------------------------------------------------
\* Properties of two concurrent "next" messages, checked under SpecRace.

\* Both calls have returned.
BothDone == \A p \in Handlers : h[p].pc = "done" /\ h[p].outcome = "returned"

\* The stored page before the first of the two calls began.
PageBefore ==
  IF h[1].before.current_page <= h[2].before.current_page
  THEN h[1].before.current_page ELSE h[2].before.current_page

\* C18: two "next" messages of one user handled concurrently, with no
\* per-user lock, are shown different pages in every interleaving and
\* leave the stored current_page exactly two higher than before: no
\* increment is lost.
C18_NoLostIncrement ==
  BothDone =>
    /\ h[1].page # h[2].page
    /\ UserOf(1).current_page = PageBefore + 2

----------------------------------------------------------------------------
\* Properties of the tokens' spans, checked under Spec.

\* The token types of keywords and brands.
KeywordTypes ==
  {"FIND", "CAR", "PRICE", "LOCATION", "YEAR", "CONDITION", "AND", "OR",
   "BETWEEN", "HIGHER", "LOWER", "THAN"}

\* The character of the query before offset k is not a word character, or
\* there is none.
StartsWord(k) == k = 0 \/ ~IsWord(query[k])

\* The character of the query at offset k is not a word character, or
\* there is none.
EndsWord(k) == k = Len(query) \/ ~IsWord(query[k + 1])

\* C19: every keyword or brand token covers a whole word of the query: its
\* span starts at offset 0 or directly after a non-word character and ends
\* at a word boundary, and a FIND token is emitted only at offset 0; no
\* such token is matched from the middle of a longer word.
C19_WholeWords ==
  \A i \in DOMAIN tokens :
    tokens[i].type \in KeywordTypes =>
      /\ StartsWord(tokens[i].position)
      /\ EndsWord(TokenEnd(tokens[i]))
      /\ tokens[i].type = "FIND" => tokens[i].position = 0

====
